---- MODULE Spec2Model ----
(***************************************************************************)
(* Dazzo monitor: the ESP-NOW receiver with InfluxDB batching (the sketch  *)
(* in src/README.md, lines 93-363), the transmitter's send gate            *)
(* (src/transmitter/transmitter.ino), the USB serial receiver              *)
(* (src/receiver/receiver.ino) and the reconnect supervisor of the BLE     *)
(* monitor (src/README.md, lines 43-91).                                   *)
(*                                                                         *)
(* The receiver has two threads of control: loop(), run by the Arduino     *)
(* loop task, and onReceive(), run by the Wi-Fi task whenever a packet     *)
(* arrives.  Nothing in the sketch orders them (no lock, no queue, no      *)
(* critical section), so every statement of one may run between any two    *)
(* statements of the other.  Each has a program counter here, and each     *)
(* action is one statement (or one run of statements that touch no shared  *)
(* variable).                                                              *)
(*                                                                         *)
(* Floats are counted in halves (the integer v stands for v/2), which      *)
(* float32 holds exactly.  millis() values are 32-bit: a pair <<hi, lo>>   *)
(* of 16-bit halves with wrapping arithmetic.                              *)
(***************************************************************************)
EXTENDS Integers, Sequences, FiniteSets, TLC

(***************************************************************************)
(* Bounds of the model.                                                    *)
(***************************************************************************)
MaxSamples == 9        \* valid packets delivered to onReceive
MaxTicks == 1          \* times the receiver's loop() starts over
MaxTxTicks == 3        \* times the transmitter's loop() starts over
MaxAttempts == 8       \* consecutive failures of the supervisor's connect
MaxStreamTicks == 205  \* loop() iterations of the steady-stream scenario
MaxUsbPackets == 4     \* valid packets delivered to the USB receiver
MaxOrderSamples == 3   \* numbered samples of the delivery scenario

(***************************************************************************)
(* Program constants.                                                      *)
(***************************************************************************)
INFLUX_FLUSH_INTERVAL_MS == 1000
INFLUX_MAX_LINES == 10
INFLUX_MAX_BUFFER == 1024
WIFI_CHECK_PERIOD_MS == 5000
SizeofSensorData == 12
MIN_TRANSMISSION_THRESHOLD == 1
MIN_SEND_INTERVAL == 60000
SENSOR_NAME == "feather-receiver"

(***************************************************************************)
(* uint32_t arithmetic on <<hi, lo>> pairs of 16-bit halves.               *)
(***************************************************************************)
W16 == 256 * 256

U32(n) == <<(n \div W16) % W16, n % W16>>

U32Add(a, d) ==
    LET lo == a[2] + (d % W16)
        hi == a[1] + (d \div W16) + (lo \div W16)
    IN  <<hi % W16, lo % W16>>

U32Sub(a, b) ==
    LET lo == a[2] - b[2]
        borrow == IF lo < 0 THEN 1 ELSE 0
        hi == a[1] - b[1] - borrow
    IN  <<(hi + W16) % W16, (lo + W16) % W16>>

\* a >= c for a 32-bit value a and a constant 0 <= c < 2^31
U32Ge(a, c) ==
    \/ a[1] > c \div W16
    \/ a[1] = c \div W16 /\ a[2] >= c % W16

(***************************************************************************)
(* String(v, 6): sign, integer digits, '.', six decimals.                  *)
(***************************************************************************)
Digit == <<"0", "1", "2", "3", "4", "5", "6", "7", "8", "9">>

RECURSIVE NatStr(_)
NatStr(n) ==
    IF n < 10 THEN Digit[n + 1]
    ELSE NatStr(n \div 10) \o Digit[(n % 10) + 1]

RECURSIVE PadDigits(_, _)
PadDigits(n, width) ==
    IF width = 0 THEN ""
    ELSE PadDigits(n \div 10, width - 1) \o Digit[(n % 10) + 1]

Abs(v) == IF v < 0 THEN 0 - v ELSE v

\* v is a float counted in halves; micro is |v| in millionths.
FloatStr(v) ==
    LET micro == Abs(v) * 500000
    IN  (IF v < 0 THEN "-" ELSE "")
            \o NatStr(micro \div 1000000) \o "." \o PadDigits(micro % 1000000, 6)

appendLine(key, sensorName, v) ==
    key \o ",sensor=" \o sensorName \o " value=" \o FloatStr(v) \o "\n"

\* One sample is three lines; the String lp is their concatenation.
toInfluxLineProtocol(d, sensorName) ==
    << appendLine("x", sensorName, d.x),
       appendLine("y", sensorName, d.y),
       appendLine("z", sensorName, d.z) >>

\* String::length() of the text made of these lines.
RECURSIVE TextLength(_)
TextLength(lines) ==
    IF lines = <<>> THEN 0
    ELSE Len(Head(lines)) + TextLength(Tail(lines))

(***************************************************************************)
(* Inputs.                                                                 *)
(***************************************************************************)
\* Build configurations: no secrets.h (every credential is ""), secrets.h
\* with an http:// base URL, secrets.h with an https:// base URL.
Configs == {"none", "http", "https"}

WiFiConfigured(c) == c # "none"            \* WIFI_SSID && *WIFI_SSID
InfluxConfigured(c) == c # "none"          \* base URL and token both non-empty

\* Payload of the packets: {-10.5, -10.5, 10.0}, a sample of 128 bytes of
\* line protocol, so that eight of them fill the buffer exactly.
Payloads == { [x |-> -21, y |-> -21, z |-> 20] }

\* Lengths of delivered packets: short, exact, long.
PacketLens == {8, 12, 16}

\* What HTTPClient::POST returns: a client error (< 0), 0, or an HTTP status.
HttpCodes == {-1, 0, 199, 200, 299, 300}

\* Milliseconds that pass from one loop() iteration to the next: delay(5)
\* alone, or a second spent in blocking calls.
Advance == {5, 1000}

\* millis() when loop() first runs, after a setup() that waited for Wi-Fi.
StartMs == {5200}

\* The largest millis(), 2^32 - 1, and two values of millis() shortly before
\* it wraps: 2^32 - 3 and 2^32 - 600.  The transmitter is at 2^32 - 100.
U32Max == << W16 - 1, W16 - 1 >>
WrapStartMs == { U32Sub(U32Max, U32(2)), U32Sub(U32Max, U32(599)) }
TxWrapStartMs == { U32Sub(U32Max, U32(99)) }

\* The steady stream: a packet every 150 ms, iterations of loop() that take
\* the 5 ms of delay(5), and a sink that answers 200.
StreamPeriod == 150
StreamAdvance == {5}
StreamHttpCodes == {200}
StreamStartMs == 5200

VARIABLES
    cfg,                 \* the build configuration
    g_influxURL,         \* write URL built by setup(); "" when disabled
    wifi,                \* WiFi.status() == WL_CONNECTED
    clock,               \* millis()
    ticks,               \* loop() iterations completed
    latestData,
    newDataAvailable,
    displayed,           \* << sample on the TFT >>; << >> before the first draw
    influxBuffer,        \* the text, as its sequence of lines
    influxLineCount,
    lastInfluxFlushMs,
    lastWiFiCheckMillis,
    pcLoop,              \* where loop() is
    httpCode,            \* influxFlush's httpCode; 0 outside a request
    sentBody,            \* body handed to POST; <<>> outside a request
    flushOutcome,        \* how the last call of influxFlush went: "none" before
                         \* the first, "skipped" (a guard returned), "refused"
                         \* (begin failed), "failed" (POST, not 2xx), "ok"
    pcCb,                \* where onReceive() is
    cbLen,               \* onReceive's len
    cbData,              \* onReceive's incomingData
    cbBase,              \* influxBuffer as influxEnqueue's length test read it
    cbCnt,               \* influxLineCount as "+= 3" loaded it
    rxCount,             \* valid packets delivered so far
    streamPeriod,        \* ms from one packet to the next; 0: at any time
    nextPacketAt,        \* millis() at which the next packet of a stream arrives
    delivered            \* the lines InfluxDB has accepted, in order

rxVars == << cfg, g_influxURL, wifi, clock, ticks, latestData, newDataAvailable,
             displayed, influxBuffer, influxLineCount, lastInfluxFlushMs,
             lastWiFiCheckMillis, pcLoop, httpCode, sentBody, flushOutcome,
             pcCb, cbLen, cbData, cbBase, cbCnt, rxCount, streamPeriod,
             nextPacketAt, delivered >>

\* The transmitter board.
VARIABLES
    txClock,             \* the transmitter's millis()
    txTicks,             \* iterations completed
    lastSendTime,
    txPc,                \* "read", "gate", "delay"
    txAcc,               \* x, y, z of this iteration
    currentTime,
    shouldSend,
    txResult             \* "none", "ESP_OK", "ESP_FAIL", "suppressed"

txVars == << txClock, txTicks, lastSendTime, txPc, txAcc, currentTime,
             shouldSend, txResult >>

\* The reconnect supervisor of the BLE monitor.  Times are in half seconds.
VARIABLES
    initial_delay,       \* BACKOFF_INITIAL
    max_delay,           \* BACKOFF_MAX
    jitter_ceiling,      \* BACKOFF_JITTER
    linkStatus,          \* "Disconnected", "Connecting", "Connected"
    attempts,            \* BackoffState: failures since the last success
    delay,               \* BackoffState: the current backoff delay
    waited               \* time spent in Disconnected since it was entered

supVars == << initial_delay, max_delay, jitter_ceiling, linkStatus, attempts,
              delay, waited >>

\* The USB serial receiver (src/receiver/receiver.ino), a separate sketch with
\* the same callback and display code and no InfluxDB batching.
VARIABLES
    usbLatestData,       \* latestData
    usbNewDataAvailable, \* newDataAvailable
    usbDisplayed,        \* << sample on the TFT >>; << >> before the first draw
    usbPcLoop,           \* where loop() is
    usbArgs,             \* the arguments of updateDisplay's printf, as loaded
    usbPcCb,             \* where onReceive() is
    usbCbLen,            \* onReceive's len
    usbCbData,           \* onReceive's incomingData
    usbRxCount           \* valid packets delivered so far

usbVars == << usbLatestData, usbNewDataAvailable, usbDisplayed, usbPcLoop,
              usbArgs, usbPcCb, usbCbLen, usbCbData, usbRxCount >>

usbLoopLocals == << usbPcLoop, usbArgs >>
usbCbLocals == << usbPcCb, usbCbLen, usbCbData, usbRxCount >>

loopLocals == << pcLoop, httpCode, sentBody, flushOutcome >>
cbLocals == << pcCb, cbLen, cbData, cbBase, cbCnt >>
timers == << clock, ticks, lastInfluxFlushMs, lastWiFiCheckMillis >>
batch == << influxBuffer, influxLineCount >>
sample == << latestData, newDataAvailable, displayed >>
build == << cfg, g_influxURL >>
arrival == << streamPeriod, nextPacketAt >>

ZeroData == [x |-> 0, y |-> 0, z |-> 0]

\* Mutant of SetupInfluxURL: the scheme is not looked at.
SetupInfluxURLAnyScheme(c) ==
    IF InfluxConfigured(c)
    THEN "http://192.168.1.10:8086/api/v2/write?bucket=dazzo&org=home"
    ELSE ""

\* setup(): the URL is kept only for a configured, non-https base URL.
SetupInfluxURL(c) ==
    IF InfluxConfigured(c) /\ c # "https"
    THEN "http://192.168.1.10:8086/api/v2/write?bucket=dazzo&org=home"
    ELSE ""

RxInit ==
    /\ cfg \in Configs
    /\ g_influxURL = SetupInfluxURL(cfg)
    /\ wifi \in (IF WiFiConfigured(cfg) THEN BOOLEAN ELSE {FALSE})
    /\ clock \in {U32(t) : t \in StartMs}
    /\ ticks = 0
    /\ latestData = ZeroData
    /\ newDataAvailable = FALSE
    /\ displayed = << >>
    /\ influxBuffer = <<>>
    /\ influxLineCount = 0
    /\ lastInfluxFlushMs = U32(0)
    /\ lastWiFiCheckMillis = U32(0)
    /\ pcLoop = "top"
    /\ httpCode = 0
    /\ sentBody = <<>>
    /\ flushOutcome = "none"
    /\ pcCb = "idle"
    /\ cbLen = 0
    /\ cbData = ZeroData
    /\ cbBase = <<>>
    /\ cbCnt = 0
    /\ rxCount = 0
    /\ streamPeriod = 0
    /\ nextPacketAt = U32(0)
    /\ delivered = <<>>

(***************************************************************************)
(* onReceive(), in the Wi-Fi task.                                         *)
(***************************************************************************)
\* Mutant of LenOk: a longer packet is accepted.
LenAtLeast(len) == len >= SizeofSensorData

\* The length guard of onReceive.
LenOk(len) == len = SizeofSensorData

\* Mutant of WouldOverflow: the sample's own length is left out.
WouldOverflowWithoutSample(bufferLength, lpLength) ==
    bufferLength > INFLUX_MAX_BUFFER

\* The capacity test of influxEnqueue.
WouldOverflow(bufferLength, lpLength) ==
    bufferLength + lpLength > INFLUX_MAX_BUFFER

\* Mutant of EnqueueOverflow: the callback pushes the text itself to make
\* room.
EnqueueOverflowFlushesInline ==
    /\ sentBody' = influxBuffer
    /\ httpCode' = 200
    /\ influxBuffer' = <<>>
    /\ influxLineCount' = 0

\* The branch influxEnqueue takes when the sample does not fit: it holds
\* two comments and no statement.
EnqueueOverflow ==
    UNCHANGED << influxBuffer, influxLineCount, httpCode, sentBody >>

\* When the transmitter's packets reach the receiver: at any time, or, in a
\* steady stream, one valid packet every streamPeriod ms.
PacketArrives(len) ==
    \/ streamPeriod = 0
    \/ LenOk(len) /\ clock = nextPacketAt

\* The transport calls onReceive(info, incomingData, len).
CbEnter(len, d) ==
    /\ pcCb = "idle"
    /\ LenOk(len) => rxCount < MaxSamples
    /\ PacketArrives(len)
    /\ nextPacketAt' = IF streamPeriod = 0 THEN nextPacketAt
                       ELSE U32Add(nextPacketAt, streamPeriod)
    /\ UNCHANGED << streamPeriod, delivered >>
    /\ rxCount' = IF LenOk(len) THEN rxCount + 1 ELSE rxCount
    /\ pcCb' = "entry"
    /\ cbLen' = len
    /\ cbData' = d
    /\ UNCHANGED << cbBase, cbCnt, build, wifi, timers, sample, batch, loopLocals >>
    /\ UNCHANGED << txVars, supVars, usbVars >>

CbReturn ==
    /\ pcCb' = "idle"
    /\ cbLen' = 0
    /\ cbData' = ZeroData
    /\ cbBase' = <<>>
    /\ cbCnt' = 0

\* if (len != sizeof(SensorData)) return;  memcpy(&latestData, ...)
CbCopy ==
    /\ pcCb = "entry"
    /\ IF LenOk(cbLen)
       THEN /\ latestData' = cbData
            /\ pcCb' = "flag"
            /\ UNCHANGED << cbLen, cbData, cbBase, cbCnt >>
       ELSE /\ CbReturn
            /\ UNCHANGED latestData
    /\ UNCHANGED << newDataAvailable, displayed, rxCount, build, wifi, timers,
                    batch, loopLocals >>
    /\ UNCHANGED << txVars, supVars, usbVars, arrival, delivered >>

\* newDataAvailable = true;
CbSetFlag ==
    /\ pcCb = "flag"
    /\ newDataAvailable' = TRUE
    /\ pcCb' = "enq"
    /\ UNCHANGED << cbLen, cbData, cbBase, cbCnt, latestData, displayed, rxCount,
                    build, wifi, timers, batch, loopLocals >>
    /\ UNCHANGED << txVars, supVars, usbVars, arrival, delivered >>

\* influxEnqueue(latestData) up to the capacity test.
CbEnqueue ==
    /\ pcCb = "enq"
    /\ LET lp == toInfluxLineProtocol(latestData, SENSOR_NAME)
       IN  IF ~InfluxConfigured(cfg)
           THEN CbReturn /\ UNCHANGED << batch, loopLocals >>
           ELSE IF WouldOverflow(TextLength(influxBuffer), TextLength(lp))
           THEN CbReturn /\ EnqueueOverflow /\ UNCHANGED << pcLoop, flushOutcome >>
           ELSE /\ pcCb' = "app"
                /\ cbBase' = influxBuffer
                /\ UNCHANGED << cbLen, cbData, cbCnt, batch, loopLocals >>
    /\ UNCHANGED << sample, rxCount, build, wifi, timers >>
    /\ UNCHANGED << txVars, supVars, usbVars, arrival, delivered >>

\* influxBuffer += lp.  String::concat computes the new length from the
\* length it reads on entry and stores it after copying.  When loop() stored
\* the empty string since the capacity test, the store fell before that read
\* (the text becomes lp) or after it (the old length, plus lp's, is stored
\* back over the old text).
CbAppend ==
    /\ pcCb = "app"
    /\ LET lp == toInfluxLineProtocol(latestData, SENSOR_NAME)
       IN  \/ influxBuffer' = influxBuffer \o lp
           \/ /\ influxBuffer # cbBase
              /\ influxBuffer' = cbBase \o lp
    /\ pcCb' = "cnt_r"
    /\ cbBase' = <<>>
    /\ UNCHANGED << cbLen, cbData, cbCnt, influxLineCount, sample, rxCount,
                    build, wifi, timers, loopLocals >>
    /\ UNCHANGED << txVars, supVars, usbVars, arrival, delivered >>

\* influxLineCount += 3: the load ...
CbCountLoad ==
    /\ pcCb = "cnt_r"
    /\ cbCnt' = influxLineCount
    /\ pcCb' = "cnt_w"
    /\ UNCHANGED << cbLen, cbData, cbBase, batch, sample, rxCount, build, wifi,
                    timers, loopLocals >>
    /\ UNCHANGED << txVars, supVars, usbVars, arrival, delivered >>

\* ... and the store.
CbCountStore ==
    /\ pcCb = "cnt_w"
    /\ influxLineCount' = cbCnt + 3
    /\ CbReturn
    /\ UNCHANGED << influxBuffer, sample, rxCount, build, wifi, timers, loopLocals >>
    /\ UNCHANGED << txVars, supVars, usbVars, arrival, delivered >>

(***************************************************************************)
(* loop(), in the loop task.                                               *)
(***************************************************************************)
\* Mutant of HttpSuccess: any HTTP status counts as success.
HttpSuccessAnyStatus(code) == code > 0

\* The success test of influxFlush.
HttpSuccess(code) == code > 0 /\ code >= 200 /\ code < 300

\* HTTPClient::begin(client, url) refuses a URL it cannot parse.
HttpBegin(url) == url # ""

\* Mutant of FlushSkips: the Wi-Fi guard is missing.
FlushSkipsNoLinkCheck ==
    \/ influxBuffer = <<>>
    \/ ~InfluxConfigured(cfg)

\* The guards of influxFlush that return before any request.
FlushSkips ==
    \/ influxBuffer = <<>>
    \/ ~InfluxConfigured(cfg)
    \/ ~wifi

\* a <= b for two 32-bit values.
U32Le(a, b) == a[1] < b[1] \/ (a[1] = b[1] /\ a[2] <= b[2])

\* Mutant of timeToFlush: the clock is compared with a deadline.
timeToFlushByDeadline ==
    U32Le(U32Add(lastInfluxFlushMs, INFLUX_FLUSH_INTERVAL_MS), clock)

\* Mutant of timeToFlush: the comparison is strict.
timeToFlushStrict ==
    U32Ge(U32Sub(clock, lastInfluxFlushMs), INFLUX_FLUSH_INTERVAL_MS + 1)

\* Mutant of bufferFull: the line count is not looked at.
bufferFullBytesOnly ==
    TextLength(influxBuffer) >= INFLUX_MAX_BUFFER

\* The flush-due test of loop().
timeToFlush == U32Ge(U32Sub(clock, lastInfluxFlushMs), INFLUX_FLUSH_INTERVAL_MS)

bufferFull ==
    \/ influxLineCount >= INFLUX_MAX_LINES
    \/ TextLength(influxBuffer) >= INFLUX_MAX_BUFFER

\* Mutant of PushFailed: a failed push discards what it tried to send.
PushFailedClears ==
    influxBuffer' = <<>> /\ influxLineCount' = 0

\* The else branch of influxFlush: a Serial.printf, then g_http.end().
PushFailed ==
    UNCHANGED << influxBuffer, influxLineCount >>

\* if (newDataAvailable) { newDataAvailable = false; ...
LoopTop ==
    /\ pcLoop = "top"
    /\ IF newDataAvailable
       THEN newDataAvailable' = FALSE /\ pcLoop' = "draw"
       ELSE UNCHANGED newDataAvailable /\ pcLoop' = "wifi"
    /\ UNCHANGED << latestData, displayed, httpCode, sentBody, flushOutcome, build, wifi,
                    timers, batch, cbLocals, rxCount >>
    /\ UNCHANGED << txVars, supVars, usbVars, arrival, delivered >>

\* ... updateDisplay(); }
LoopDraw ==
    /\ pcLoop = "draw"
    /\ displayed' = << latestData >>
    /\ pcLoop' = "wifi"
    /\ UNCHANGED << latestData, newDataAvailable, httpCode, sentBody, flushOutcome,
                    build,
                    wifi, timers, batch, cbLocals, rxCount >>
    /\ UNCHANGED << txVars, supVars, usbVars, arrival, delivered >>

\* The rate-limited ensureWiFiConnected(): it returns at once without an
\* SSID or when connected, and otherwise ends connected or timed out.
LoopWiFi ==
    /\ pcLoop = "wifi"
    /\ IF U32Ge(U32Sub(clock, lastWiFiCheckMillis), WIFI_CHECK_PERIOD_MS)
       THEN /\ lastWiFiCheckMillis' = clock
            /\ IF WiFiConfigured(cfg) /\ ~wifi
               THEN wifi' \in BOOLEAN
               ELSE UNCHANGED wifi
       ELSE UNCHANGED << lastWiFiCheckMillis, wifi >>
    /\ pcLoop' = "check"
    /\ UNCHANGED << clock, ticks, lastInfluxFlushMs, httpCode, sentBody,
                    flushOutcome, build,
                    sample, batch, cbLocals, rxCount >>
    /\ UNCHANGED << txVars, supVars, usbVars, arrival, delivered >>

\* Mutant of LoopCheck: only the timer asks for a flush.
LoopCheckTimeOnly ==
    /\ pcLoop = "check"
    /\ pcLoop' = IF wifi /\ timeToFlush THEN "f_enter" ELSE "delay"
    /\ UNCHANGED << httpCode, sentBody, flushOutcome, build, wifi, timers, sample,
                    batch, cbLocals, rxCount >>
    /\ UNCHANGED << txVars, supVars, usbVars, arrival, delivered >>

\* if (WiFi.status() == WL_CONNECTED) { ... if (timeToFlush || bufferFull)
LoopCheck ==
    /\ pcLoop = "check"
    /\ pcLoop' = IF wifi /\ (timeToFlush \/ bufferFull) THEN "f_enter" ELSE "delay"
    /\ UNCHANGED << httpCode, sentBody, flushOutcome, build, wifi, timers, sample,
                    batch, cbLocals, rxCount >>
    /\ UNCHANGED << txVars, supVars, usbVars, arrival, delivered >>

\* influxFlush() from its entry to the call of POST, which is handed the
\* text as it stands.
FlushEnter ==
    /\ pcLoop = "f_enter"
    /\ IF FlushSkips
       THEN pcLoop' = "f_ret" /\ flushOutcome' = "skipped" /\ UNCHANGED sentBody
       ELSE IF ~HttpBegin(g_influxURL)
       THEN pcLoop' = "f_ret" /\ flushOutcome' = "refused" /\ UNCHANGED sentBody
       ELSE pcLoop' = "wait" /\ sentBody' = influxBuffer /\ UNCHANGED flushOutcome
    /\ UNCHANGED << httpCode, build, wifi, timers, sample, batch, cbLocals, rxCount >>
    /\ UNCHANGED << txVars, supVars, usbVars, arrival, delivered >>

\* POST returns.
FlushResponse(code) ==
    /\ pcLoop = "wait"
    /\ httpCode' = code
    /\ IF HttpSuccess(code)
       THEN pcLoop' = "clr_buf" /\ flushOutcome' = "ok" /\ UNCHANGED batch
       ELSE pcLoop' = "f_ret" /\ flushOutcome' = "failed" /\ PushFailed
    /\ UNCHANGED << sentBody, build, wifi, timers, sample, cbLocals, rxCount >>
    /\ UNCHANGED << txVars, supVars, usbVars, arrival >>

\* The server stores the body of a request it answers with 2xx.
Accept(code) ==
    delivered' = IF code \in 200..299 THEN delivered \o sentBody ELSE delivered

\* influxBuffer = "";
FlushClearBuffer ==
    /\ pcLoop = "clr_buf"
    /\ influxBuffer' = <<>>
    /\ pcLoop' = "clr_cnt"
    /\ UNCHANGED << influxLineCount, httpCode, sentBody, flushOutcome, build, wifi, timers,
                    sample, cbLocals, rxCount >>
    /\ UNCHANGED << txVars, supVars, usbVars, arrival, delivered >>

\* influxLineCount = 0;
FlushClearCount ==
    /\ pcLoop = "clr_cnt"
    /\ influxLineCount' = 0
    /\ pcLoop' = "f_ret"
    /\ UNCHANGED << influxBuffer, httpCode, sentBody, flushOutcome, build, wifi, timers,
                    sample, cbLocals, rxCount >>
    /\ UNCHANGED << txVars, supVars, usbVars, arrival, delivered >>

\* influxFlush returns; lastInfluxFlushMs = millis();
FlushReturn ==
    /\ pcLoop = "f_ret"
    /\ lastInfluxFlushMs' = clock
    /\ httpCode' = 0
    /\ sentBody' = <<>>
    /\ pcLoop' = "delay"
    /\ UNCHANGED << clock, ticks, lastWiFiCheckMillis, flushOutcome, build, wifi,
                    sample, batch, cbLocals, rxCount >>
    /\ UNCHANGED << txVars, supVars, usbVars, arrival, delivered >>

\* Iterations of loop() the model follows.
TickBound == IF streamPeriod = 0 THEN MaxTicks ELSE MaxStreamTicks

\* In a steady stream the clock does not pass the arrival of a packet, and
\* onReceive, which runs for microseconds, is over before delay(5) is.
TimeMayPass ==
    \/ streamPeriod = 0
    \/ pcCb = "idle" /\ clock # nextPacketAt

\* delay(5); and the time the iteration's blocking calls took.
LoopDelay(d) ==
    /\ pcLoop = "delay"
    /\ ticks < TickBound
    /\ TimeMayPass
    /\ clock' = U32Add(clock, d)
    /\ ticks' = ticks + 1
    /\ pcLoop' = "top"
    /\ UNCHANGED << lastInfluxFlushMs, lastWiFiCheckMillis, httpCode, sentBody,
                    flushOutcome,
                    build, wifi, sample, batch, cbLocals, rxCount >>
    /\ UNCHANGED << txVars, supVars, usbVars, arrival, delivered >>

(***************************************************************************)
(* The Wi-Fi link: it drops at any time, and the station reconnects by     *)
(* itself once WiFi.begin has been called.                                 *)
(***************************************************************************)
WiFiDrop ==
    /\ wifi
    /\ wifi' = FALSE
    /\ UNCHANGED << build, timers, sample, batch, loopLocals, cbLocals, rxCount >>
    /\ UNCHANGED << txVars, supVars, usbVars, arrival, delivered >>

WiFiUp ==
    /\ ~wifi
    /\ WiFiConfigured(cfg)
    /\ wifi' = TRUE
    /\ UNCHANGED << build, timers, sample, batch, loopLocals, cbLocals, rxCount >>
    /\ UNCHANGED << txVars, supVars, usbVars, arrival, delivered >>

(***************************************************************************)
(* The transmitter's loop() (src/transmitter/transmitter.ino).             *)
(***************************************************************************)
\* Linear-acceleration readings, in halves: magnitudes 0, 0.87, 1 and 1.41.
Readings == { [x |-> 0, y |-> 0, z |-> 0], [x |-> 1, y |-> 1, z |-> 1],
              [x |-> 2, y |-> 0, z |-> 0], [x |-> 2, y |-> 2, z |-> 0] }

\* Milliseconds from one reading to the next: delay(500) alone, or longer.
TxAdvance == {500, 59499, 59500}

\* millis() when the transmitter's loop() first runs.
TxStartMs == {500}

\* x*x + y*y + z*z, in quarters.
SumOfSquares(acc) == acc.x * acc.x + acc.y * acc.y + acc.z * acc.z

\* sqrt(s) >= t for s in quarters and t in units: sqrt is monotonic and
\* exact on the squares involved.
MagnitudeAtLeast(acc, t) == SumOfSquares(acc) >= (2 * t) * (2 * t)

\* Mutant of ShouldSend: both comparisons are strict.
ShouldSendStrict(acc, now, last) ==
    \/ SumOfSquares(acc) > (2 * MIN_TRANSMISSION_THRESHOLD) * (2 * MIN_TRANSMISSION_THRESHOLD)
    \/ U32Ge(U32Sub(now, last), MIN_SEND_INTERVAL + 1)

\* bool shouldSend = (magnitude >= MIN_TRANSMISSION_THRESHOLD) ||
\*                   (currentTime - lastSendTime >= MIN_SEND_INTERVAL);
ShouldSend(acc, now, last) ==
    \/ MagnitudeAtLeast(acc, MIN_TRANSMISSION_THRESHOLD)
    \/ U32Ge(U32Sub(now, last), MIN_SEND_INTERVAL)

\* What a successful esp_now_send does to lastSendTime.
SendOk == lastSendTime' = currentTime

TxInit ==
    /\ txClock \in {U32(t) : t \in TxStartMs}
    /\ txTicks = 0
    /\ lastSendTime = U32(0)
    /\ txPc = "read"
    /\ txAcc = ZeroData
    /\ currentTime = U32(0)
    /\ shouldSend = FALSE
    /\ txResult = "none"

\* The reading, millis() and the gate.
TxRead(acc) ==
    /\ txPc = "read"
    /\ txAcc' = acc
    /\ currentTime' = txClock
    /\ shouldSend' = ShouldSend(acc, txClock, lastSendTime)
    /\ txPc' = "gate"
    /\ UNCHANGED << txClock, txTicks, lastSendTime, txResult >>
    /\ UNCHANGED << rxVars, supVars, usbVars >>

\* Mutant of TxGate: every attempted send counts as sent.
TxGateStampsAttempt(result) ==
    /\ txPc = "gate"
    /\ IF shouldSend
       THEN /\ txResult' = result
            /\ SendOk
       ELSE /\ txResult' = "suppressed"
            /\ UNCHANGED lastSendTime
    /\ txPc' = "delay"
    /\ UNCHANGED << txClock, txTicks, txAcc, currentTime, shouldSend >>
    /\ UNCHANGED << rxVars, supVars, usbVars >>

\* if (shouldSend) { esp_now_send ... } else { ... }
TxGate(result) ==
    /\ txPc = "gate"
    /\ IF shouldSend
       THEN /\ txResult' = result
            /\ IF result = "ESP_OK" THEN SendOk ELSE UNCHANGED lastSendTime
       ELSE /\ txResult' = "suppressed"
            /\ UNCHANGED lastSendTime
    /\ txPc' = "delay"
    /\ UNCHANGED << txClock, txTicks, txAcc, currentTime, shouldSend >>
    /\ UNCHANGED << rxVars, supVars, usbVars >>

\* delay(500); the locals go out of scope.
TxDelay(d) ==
    /\ txPc = "delay"
    /\ txTicks < MaxTxTicks
    /\ txClock' = U32Add(txClock, d)
    /\ txTicks' = txTicks + 1
    /\ txAcc' = ZeroData
    /\ currentTime' = U32(0)
    /\ shouldSend' = FALSE
    /\ txResult' = "none"
    /\ txPc' = "read"
    /\ UNCHANGED lastSendTime
    /\ UNCHANGED << rxVars, supVars, usbVars >>

(***************************************************************************)
(* The USB serial receiver (src/receiver/receiver.ino): onReceive() in the *)
(* Wi-Fi task and loop() in the loop task, with no synchronization.        *)
(* memcpy stores latestData field by field and printf's arguments are      *)
(* loaded field by field, so a draw may see part of a copy.                *)
(***************************************************************************)
\* The k-th valid packet carries the sample {k, k, k}.
Sample(k) == [x |-> k, y |-> k, z |-> k]

UsbInit ==
    /\ usbLatestData = ZeroData
    /\ usbNewDataAvailable = FALSE
    /\ usbDisplayed = << >>
    /\ usbPcLoop = "test"
    /\ usbArgs = ZeroData
    /\ usbPcCb = "idle"
    /\ usbCbLen = 0
    /\ usbCbData = ZeroData
    /\ usbRxCount = 0

\* The transport calls onReceive(info, incomingData, len).
UsbCbEnter(len) ==
    /\ usbPcCb = "idle"
    /\ LenOk(len) => usbRxCount < MaxUsbPackets
    /\ usbRxCount' = IF LenOk(len) THEN usbRxCount + 1 ELSE usbRxCount
    /\ usbPcCb' = "entry"
    /\ usbCbLen' = len
    /\ usbCbData' = Sample(usbRxCount + 1)
    /\ UNCHANGED << usbLatestData, usbNewDataAvailable, usbDisplayed, usbLoopLocals >>
    /\ UNCHANGED << rxVars, txVars, supVars >>

\* if (len != sizeof(SensorData)) return;  memcpy: the bytes of x ...
UsbCbCopyX ==
    /\ usbPcCb = "entry"
    /\ IF LenOk(usbCbLen)
       THEN /\ usbLatestData' = [usbLatestData EXCEPT !.x = usbCbData.x]
            /\ usbPcCb' = "copy_y"
            /\ UNCHANGED << usbCbLen, usbCbData >>
       ELSE /\ usbPcCb' = "idle"
            /\ usbCbLen' = 0
            /\ usbCbData' = ZeroData
            /\ UNCHANGED usbLatestData
    /\ UNCHANGED << usbRxCount, usbNewDataAvailable, usbDisplayed, usbLoopLocals >>
    /\ UNCHANGED << rxVars, txVars, supVars >>

\* ... of y ...
UsbCbCopyY ==
    /\ usbPcCb = "copy_y"
    /\ usbLatestData' = [usbLatestData EXCEPT !.y = usbCbData.y]
    /\ usbPcCb' = "copy_z"
    /\ UNCHANGED << usbCbLen, usbCbData, usbRxCount, usbNewDataAvailable,
                    usbDisplayed, usbLoopLocals >>
    /\ UNCHANGED << rxVars, txVars, supVars >>

\* ... and of z.
UsbCbCopyZ ==
    /\ usbPcCb = "copy_z"
    /\ usbLatestData' = [usbLatestData EXCEPT !.z = usbCbData.z]
    /\ usbPcCb' = "flag"
    /\ UNCHANGED << usbCbLen, usbCbData, usbRxCount, usbNewDataAvailable,
                    usbDisplayed, usbLoopLocals >>
    /\ UNCHANGED << rxVars, txVars, supVars >>

\* newDataAvailable = true;
UsbCbSetFlag ==
    /\ usbPcCb = "flag"
    /\ usbNewDataAvailable' = TRUE
    /\ usbPcCb' = "print"
    /\ UNCHANGED << usbCbLen, usbCbData, usbRxCount, usbLatestData, usbDisplayed,
                    usbLoopLocals >>
    /\ UNCHANGED << rxVars, txVars, supVars >>

\* Serial.printf of the sample as JSON; onReceive returns.
UsbCbPrint ==
    /\ usbPcCb = "print"
    /\ usbPcCb' = "idle"
    /\ usbCbLen' = 0
    /\ usbCbData' = ZeroData
    /\ UNCHANGED << usbRxCount, usbLatestData, usbNewDataAvailable, usbDisplayed,
                    usbLoopLocals >>
    /\ UNCHANGED << rxVars, txVars, supVars >>

\* if (newDataAvailable) {
UsbLoopTest ==
    /\ usbPcLoop = "test"
    /\ usbPcLoop' = IF usbNewDataAvailable THEN "clear" ELSE "delay"
    /\ UNCHANGED << usbArgs, usbLatestData, usbNewDataAvailable, usbDisplayed,
                    usbCbLocals >>
    /\ UNCHANGED << rxVars, txVars, supVars >>

\* newDataAvailable = false;
UsbLoopClear ==
    /\ usbPcLoop = "clear"
    /\ usbNewDataAvailable' = FALSE
    /\ usbPcLoop' = "read_x"
    /\ UNCHANGED << usbArgs, usbLatestData, usbDisplayed, usbCbLocals >>
    /\ UNCHANGED << rxVars, txVars, supVars >>

\* updateDisplay(): the load of latestData.x ...
UsbDrawReadX ==
    /\ usbPcLoop = "read_x"
    /\ usbArgs' = [usbArgs EXCEPT !.x = usbLatestData.x]
    /\ usbPcLoop' = "read_y"
    /\ UNCHANGED << usbLatestData, usbNewDataAvailable, usbDisplayed, usbCbLocals >>
    /\ UNCHANGED << rxVars, txVars, supVars >>

\* ... of latestData.y ...
UsbDrawReadY ==
    /\ usbPcLoop = "read_y"
    /\ usbArgs' = [usbArgs EXCEPT !.y = usbLatestData.y]
    /\ usbPcLoop' = "read_z"
    /\ UNCHANGED << usbLatestData, usbNewDataAvailable, usbDisplayed, usbCbLocals >>
    /\ UNCHANGED << rxVars, txVars, supVars >>

\* ... and of latestData.z.
UsbDrawReadZ ==
    /\ usbPcLoop = "read_z"
    /\ usbArgs' = [usbArgs EXCEPT !.z = usbLatestData.z]
    /\ usbPcLoop' = "print"
    /\ UNCHANGED << usbLatestData, usbNewDataAvailable, usbDisplayed, usbCbLocals >>
    /\ UNCHANGED << rxVars, txVars, supVars >>

\* Mutant of UsbDrawPrint: the flag is cleared after the draw as well.
UsbDrawPrintThenClear ==
    /\ usbPcLoop = "print"
    /\ usbDisplayed' = << usbArgs >>
    /\ usbNewDataAvailable' = FALSE
    /\ usbArgs' = ZeroData
    /\ usbPcLoop' = "delay"
    /\ UNCHANGED << usbLatestData, usbCbLocals >>
    /\ UNCHANGED << rxVars, txVars, supVars >>

\* tft.printf("X: %5.2f\nY: %5.2f\nZ: %5.2f", ...) puts the three values on
\* the screen.
UsbDrawPrint ==
    /\ usbPcLoop = "print"
    /\ usbDisplayed' = << usbArgs >>
    /\ usbArgs' = ZeroData
    /\ usbPcLoop' = "delay"
    /\ UNCHANGED << usbLatestData, usbNewDataAvailable, usbCbLocals >>
    /\ UNCHANGED << rxVars, txVars, supVars >>

\* delay(5);
UsbLoopDelay ==
    /\ usbPcLoop = "delay"
    /\ usbPcLoop' = "test"
    /\ UNCHANGED << usbArgs, usbLatestData, usbNewDataAvailable, usbDisplayed,
                    usbCbLocals >>
    /\ UNCHANGED << rxVars, txVars, supVars >>

(***************************************************************************)
(* The reconnect supervisor of the BLE monitor (main.py, described in      *)
(* src/README.md lines 43-91; the program itself is not among the sources, *)
(* so this section follows sections 3 and 4.3 of the specification).       *)
(***************************************************************************)
\* Configurations <<initial, max, jitter ceiling>> in half seconds: the
\* defaults (1 s, 60 s, 0.5 s), the defaults without jitter, a low cap, and a
\* jitter ceiling above the initial delay.
DefaultBackoff == << 2, 120, 1 >>

BackoffConfigs == { DefaultBackoff, << 2, 120, 0 >>, << 1, 5, 1 >>,
                    << 2, 5, 2 >>, << 1, 120, 3 >> }

Min(a, b) == IF a < b THEN a ELSE b

\* Mutant of ExpTerm: the doubling is never capped.
RECURSIVE ExpTermUncapped(_, _, _)
ExpTermUncapped(initial, max, n) ==
    IF n = 0 THEN initial
    ELSE 2 * ExpTermUncapped(initial, max, n - 1)

\* min(max_delay, initial_delay * 2^n), doubling n times and stopping at
\* the cap.
RECURSIVE ExpTerm(_, _, _)
ExpTerm(initial, max, n) ==
    IF n = 0 THEN Min(max, initial)
    ELSE Min(max, 2 * ExpTerm(initial, max, n - 1))

\* Mutant of Jittered: the jitter is taken off the delay.
JitteredDown(base, j) == base - j

\* The jitter is added to the exponential term.
Jittered(base, j) == base + j

\* Mutant of BackoffElapsed: the supervisor does not wait.
BackoffElapsedAtOnce == TRUE

\* The backoff delay has elapsed since Disconnected was entered.
BackoffElapsed == waited >= delay

\* Entering Disconnected: the next delay is computed, then attempts is
\* incremented.
EnterDisconnected(j) ==
    /\ linkStatus' = "Disconnected"
    /\ delay' = Jittered(ExpTerm(initial_delay, max_delay, attempts), j)
    /\ attempts' = attempts + 1
    /\ waited' = 0

\* The supervisor starts in Disconnected with nothing to wait for.
SupInit(configs) ==
    /\ \E c \in configs : /\ initial_delay = c[1]
                          /\ max_delay = c[2]
                          /\ jitter_ceiling = c[3]
    /\ linkStatus = "Disconnected"
    /\ attempts = 0
    /\ delay = 0
    /\ waited = 0

\* The supervisor sleeps one time unit of its backoff.
SupSleep ==
    /\ linkStatus = "Disconnected"
    /\ ~BackoffElapsed
    /\ waited' = waited + 1
    /\ UNCHANGED << initial_delay, max_delay, jitter_ceiling, linkStatus,
                    attempts, delay >>
    /\ UNCHANGED << rxVars, txVars, usbVars >>

\* Disconnected -> Connecting, once the delay has elapsed.
SupConnect ==
    /\ linkStatus = "Disconnected"
    /\ BackoffElapsed
    /\ linkStatus' = "Connecting"
    /\ UNCHANGED << initial_delay, max_delay, jitter_ceiling, attempts, delay,
                    waited >>
    /\ UNCHANGED << rxVars, txVars, usbVars >>

\* Connecting -> Connected on a successful connect and subscribe.
SupConnected ==
    /\ linkStatus = "Connecting"
    /\ linkStatus' = "Connected"
    /\ attempts' = 0
    /\ delay' = initial_delay
    /\ UNCHANGED << initial_delay, max_delay, jitter_ceiling, waited >>
    /\ UNCHANGED << rxVars, txVars, usbVars >>

\* Connecting -> Disconnected on a connect or subscribe failure.
SupFail(j) ==
    /\ linkStatus = "Connecting"
    /\ attempts < MaxAttempts
    /\ EnterDisconnected(j)
    /\ UNCHANGED << initial_delay, max_delay, jitter_ceiling >>
    /\ UNCHANGED << rxVars, txVars, usbVars >>

\* Connected -> Disconnected on a link-drop notification.
SupDrop(j) ==
    /\ linkStatus = "Connected"
    /\ EnterDisconnected(j)
    /\ UNCHANGED << initial_delay, max_delay, jitter_ceiling >>
    /\ UNCHANGED << rxVars, txVars, usbVars >>

(***************************************************************************)
(* Specifications: the receiver, the transmitter, the supervisor, the      *)
(* steady stream and the USB receiver.  The programs share no state; each  *)
(* specification holds the others still in their initial states.           *)
(***************************************************************************)
vars == << rxVars, txVars, supVars, usbVars >>

Init == RxInit /\ TxInit /\ SupInit({DefaultBackoff}) /\ UsbInit

Next ==
    \/ \E len \in PacketLens, d \in Payloads : CbEnter(len, d)
    \/ CbCopy
    \/ CbSetFlag
    \/ CbEnqueue
    \/ CbAppend
    \/ CbCountLoad
    \/ CbCountStore
    \/ LoopTop
    \/ LoopDraw
    \/ LoopWiFi
    \/ LoopCheck
    \/ FlushEnter
    \/ \E code \in HttpCodes : FlushResponse(code) /\ UNCHANGED delivered
    \/ FlushClearBuffer
    \/ FlushClearCount
    \/ FlushReturn
    \/ \E d \in Advance : LoopDelay(d)
    \/ WiFiDrop
    \/ WiFiUp

Spec == Init /\ [][Next]_vars

InitTx == RxInit /\ cfg = "none" /\ TxInit /\ SupInit({DefaultBackoff}) /\ UsbInit

NextTx ==
    \/ \E acc \in Readings : TxRead(acc)
    \/ \E result \in {"ESP_OK", "ESP_FAIL"} : TxGate(result)
    \/ \E d \in TxAdvance : TxDelay(d)

SpecTx == InitTx /\ [][NextTx]_vars

\* The steady stream starts at the end of the first iteration of loop(),
\* which called influxFlush with nothing to send: Wi-Fi is connected, the
\* batch is empty and the last flush is now.
RxInitStream ==
    /\ cfg = "http"
    /\ g_influxURL = SetupInfluxURL("http")
    /\ wifi = TRUE
    /\ clock = U32(StreamStartMs)
    /\ ticks = 0
    /\ latestData = ZeroData
    /\ newDataAvailable = FALSE
    /\ displayed = << >>
    /\ influxBuffer = <<>>
    /\ influxLineCount = 0
    /\ lastInfluxFlushMs = U32(StreamStartMs)
    /\ lastWiFiCheckMillis = U32(StreamStartMs)
    /\ pcLoop = "delay"
    /\ httpCode = 0
    /\ sentBody = <<>>
    /\ flushOutcome = "skipped"
    /\ pcCb = "idle"
    /\ cbLen = 0
    /\ cbData = ZeroData
    /\ cbBase = <<>>
    /\ cbCnt = 0
    /\ rxCount = 0
    /\ streamPeriod = StreamPeriod
    /\ nextPacketAt = U32(StreamStartMs + StreamPeriod)
    /\ delivered = <<>>

InitStream == RxInitStream /\ TxInit /\ SupInit({DefaultBackoff}) /\ UsbInit

NextStream ==
    \/ \E d \in Payloads : CbEnter(SizeofSensorData, d)
    \/ CbCopy
    \/ CbSetFlag
    \/ CbEnqueue
    \/ CbAppend
    \/ CbCountLoad
    \/ CbCountStore
    \/ LoopTop
    \/ LoopDraw
    \/ LoopWiFi
    \/ LoopCheck
    \/ FlushEnter
    \/ \E code \in StreamHttpCodes : FlushResponse(code) /\ UNCHANGED delivered
    \/ FlushClearBuffer
    \/ FlushClearCount
    \/ FlushReturn
    \/ \E d \in StreamAdvance : LoopDelay(d)

SpecStream == InitStream /\ [][NextStream]_vars

InitSup == RxInit /\ cfg = "none" /\ TxInit /\ SupInit(BackoffConfigs) /\ UsbInit

NextSup ==
    \/ SupSleep
    \/ SupConnect
    \/ SupConnected
    \/ \E j \in 0..jitter_ceiling : SupFail(j)
    \/ \E j \in 0..jitter_ceiling : SupDrop(j)

SpecSup == InitSup /\ [][NextSup]_vars

InitUsb == RxInit /\ cfg = "none" /\ TxInit /\ SupInit({DefaultBackoff}) /\ UsbInit

NextUsb ==
    \/ \E len \in PacketLens : UsbCbEnter(len)
    \/ UsbCbCopyX
    \/ UsbCbCopyY
    \/ UsbCbCopyZ
    \/ UsbCbSetFlag
    \/ UsbCbPrint
    \/ UsbLoopTest
    \/ UsbLoopClear
    \/ UsbDrawReadX
    \/ UsbDrawReadY
    \/ UsbDrawReadZ
    \/ UsbDrawPrint
    \/ UsbLoopDelay

SpecUsb == InitUsb /\ [][NextUsb]_vars

\* A callback that has started runs to its end, and the loop task keeps
\* running loop(); packets arrive or not.
UsbCbRuns ==
    UsbCbCopyX \/ UsbCbCopyY \/ UsbCbCopyZ \/ UsbCbSetFlag \/ UsbCbPrint

UsbLoopRuns ==
    \/ UsbLoopTest \/ UsbLoopClear \/ UsbDrawReadX \/ UsbDrawReadY
    \/ UsbDrawReadZ \/ UsbDrawPrint \/ UsbLoopDelay

SpecUsbFair == SpecUsb /\ WF_vars(UsbCbRuns) /\ WF_vars(UsbLoopRuns)

\* millis() is about to wrap, after 49.7 days.  The receiver is at the end of
\* an iteration of loop() that called influxFlush with nothing to send and
\* checked Wi-Fi 4 s ago, and one sample has arrived since; the transmitter
\* sent 500 ms ago.
RxInitWrap ==
    /\ cfg = "http"
    /\ g_influxURL = SetupInfluxURL("http")
    /\ wifi = TRUE
    /\ clock \in WrapStartMs
    /\ ticks = 0
    /\ latestData \in Payloads
    /\ newDataAvailable = TRUE
    /\ displayed = << >>
    /\ influxBuffer = toInfluxLineProtocol(latestData, SENSOR_NAME)
    /\ influxLineCount = 3
    /\ lastInfluxFlushMs = clock
    /\ lastWiFiCheckMillis = U32Sub(clock, U32(4000))
    /\ pcLoop = "delay"
    /\ httpCode = 0
    /\ sentBody = <<>>
    /\ flushOutcome = "skipped"
    /\ pcCb = "idle"
    /\ cbLen = 0
    /\ cbData = ZeroData
    /\ cbBase = <<>>
    /\ cbCnt = 0
    /\ rxCount = 1
    /\ streamPeriod = 0
    /\ nextPacketAt = U32(0)
    /\ delivered = <<>>

TxInitWrap ==
    /\ txClock \in TxWrapStartMs
    /\ txTicks = 0
    /\ lastSendTime = U32Sub(txClock, U32(500))
    /\ txPc = "read"
    /\ txAcc = ZeroData
    /\ currentTime = U32(0)
    /\ shouldSend = FALSE
    /\ txResult = "none"

InitWrap == RxInitWrap /\ TxInitWrap /\ SupInit({DefaultBackoff}) /\ UsbInit

NextWrap ==
    \/ LoopTop
    \/ LoopDraw
    \/ LoopWiFi
    \/ LoopCheck
    \/ FlushEnter
    \/ \E code \in HttpCodes : FlushResponse(code) /\ UNCHANGED delivered
    \/ FlushClearBuffer
    \/ FlushClearCount
    \/ FlushReturn
    \/ \E d \in Advance : LoopDelay(d)
    \/ WiFiDrop
    \/ WiFiUp
    \/ \E acc \in Readings : TxRead(acc)
    \/ \E result \in {"ESP_OK", "ESP_FAIL"} : TxGate(result)
    \/ \E d \in TxAdvance : TxDelay(d)

SpecWrap == InitWrap /\ [][NextWrap]_vars

\* The delivery scenario: InfluxDB over http, the transmitter's samples
\* numbered 1, 2, 3 in the order they arrive, pushes that fail or succeed,
\* and the server's store.
OrderHttpCodes == {-1, 200}

InitOrder ==
    RxInit /\ cfg = "http" /\ wifi /\ TxInit /\ SupInit({DefaultBackoff}) /\ UsbInit

NextOrder ==
    \/ rxCount < MaxOrderSamples /\ CbEnter(SizeofSensorData, Sample(rxCount + 1))
    \/ CbCopy
    \/ CbSetFlag
    \/ CbEnqueue
    \/ CbAppend
    \/ CbCountLoad
    \/ CbCountStore
    \/ LoopTop
    \/ LoopDraw
    \/ LoopWiFi
    \/ LoopCheck
    \/ FlushEnter
    \/ \E code \in OrderHttpCodes : FlushResponse(code) /\ Accept(code)
    \/ FlushClearBuffer
    \/ FlushClearCount
    \/ FlushReturn
    \/ \E d \in Advance : LoopDelay(d)

SpecOrder == InitOrder /\ [][NextOrder]_vars

\* The supervisor's loop keeps running: it sleeps while the delay has not
\* elapsed and makes its attempt once it has.
SpecSupFair == SpecSup /\ WF_vars(SupSleep) /\ WF_vars(SupConnect)

(***************************************************************************)
(* Vocabulary of the properties.                                           *)
(***************************************************************************)
IsPrefix(a, b) == Len(a) <= Len(b) /\ SubSeq(b, 1, Len(a)) = a

IsSuffix(a, b) == Len(a) <= Len(b) /\ SubSeq(b, Len(b) - Len(a) + 1, Len(b)) = a

\* A 32-bit value below 2^31 as a number.
U32Val(a) == a[1] * W16 + a[2]

\* loop() takes a step; onReceive() takes a step.
LoopStep == pcLoop' # pcLoop
CbStep == pcCb' # pcCb

\* loop() is between handing the text to POST and the end of the clearing.
InRequest == pcLoop \in {"wait", "clr_buf", "clr_cnt"}

Is2xx(code) == code \in 200..299

(***************************************************************************)
(* C1.  A flush attempt whose push does not succeed leaves the batch as    *)
(* it was: the step in which influxFlush gives up (begin failed, or POST   *)
(* returned a client error or a status outside 2xx) changes neither the    *)
(* text nor the line count, and when it returns every line it handed to    *)
(* POST is still in the text, first and in order.                          *)
(***************************************************************************)
C1_GivesUp ==
    \/ pcLoop = "f_enter" /\ pcLoop' = "f_ret"
    \/ pcLoop = "wait" /\ pcLoop' # "wait" /\ ~Is2xx(httpCode')
    \/ pcLoop = "f_ret" /\ pcLoop' # "f_ret" /\ ~Is2xx(httpCode)

C1_FailedPushKeepsBatch ==
    /\ [][C1_GivesUp => influxBuffer' = influxBuffer
                          /\ influxLineCount' = influxLineCount]_vars
    /\ [](pcLoop = "f_ret" /\ ~Is2xx(httpCode) => IsPrefix(sentBody, influxBuffer))

\* A push of a whole sample came back 300 and the batch is what was sent.
C1_Witness ==
    /\ pcLoop = "f_ret"
    /\ httpCode = 300
    /\ sentBody # <<>>
    /\ influxBuffer = sentBody
    /\ influxLineCount = Len(sentBody)

(***************************************************************************)
(* C2.  A line leaves the batch only as part of the body of a push that    *)
(* returned success: whenever the text gets shorter, POST has returned a   *)
(* 2xx status and the text is exactly the body that POST was handed.       *)
(***************************************************************************)
C2_OnlySentLinesLeave ==
    [][Len(influxBuffer') < Len(influxBuffer)
         => Is2xx(httpCode) /\ influxBuffer = sentBody]_vars

(***************************************************************************)
(* C3.  A valid sample that does not fit is not dropped: when              *)
(* influxEnqueue returns for a configured sink, the text has grown by the  *)
(* sample's three lines, which are its end.                                *)
(***************************************************************************)
C3_OverflowSampleRetained ==
    [][pcCb = "enq" /\ pcCb' = "idle" /\ InfluxConfigured(cfg)
         => /\ Len(influxBuffer') = Len(influxBuffer) + 3
            /\ IsSuffix(toInfluxLineProtocol(latestData, SENSOR_NAME),
                        influxBuffer')]_vars

(***************************************************************************)
(* C4.  The text never holds more than INFLUX_MAX_BUFFER bytes, whatever   *)
(* the sink and the link do.                                               *)
(***************************************************************************)
C4_BufferBounded == TextLength(influxBuffer) <= INFLUX_MAX_BUFFER

\* Nine samples arrived, nothing was ever pushed, and the buffer is full to
\* the byte.
C4_Witness ==
    /\ rxCount = 9
    /\ pcCb = "idle"
    /\ ticks = MaxTicks /\ pcLoop = "delay"
    /\ TextLength(influxBuffer) = INFLUX_MAX_BUFFER
    /\ influxLineCount = 24

(***************************************************************************)
(* C5.  The line count is the number of lines of the text.  Stated here   *)
(* only for the states in which neither thread is between its own two      *)
(* assignments to the pair (onReceive is not running and loop() is not     *)
(* between its two clearing assignments); the claim also covers those.     *)
(***************************************************************************)
C5_CountMatchesText ==
    pcCb = "idle" /\ pcLoop # "clr_cnt" => influxLineCount = Len(influxBuffer)

(***************************************************************************)
(* C6.  When POST returns, influxFlush goes on to clear the batch exactly  *)
(* when the status is in 200..299; otherwise it returns with the batch     *)
(* untouched.  The clearing stores the empty text and a count of zero, and *)
(* loop() is at the clearing only after a 2xx.                             *)
(***************************************************************************)
C6_ClearsIffSuccess ==
    /\ [][pcLoop = "wait" /\ LoopStep
            => /\ (pcLoop' = "clr_buf") <=> Is2xx(httpCode')
               /\ pcLoop' \in {"clr_buf", "f_ret"}
               /\ UNCHANGED batch]_vars
    /\ [][pcLoop = "clr_buf" /\ LoopStep
            => pcLoop' = "clr_cnt" /\ TextLength(influxBuffer') = 0]_vars
    /\ [][pcLoop = "clr_cnt" /\ LoopStep
            => pcLoop' = "f_ret" /\ influxLineCount' = 0]_vars
    /\ [](pcLoop \in {"clr_buf", "clr_cnt"} => Is2xx(httpCode))

\* A push of a non-empty batch came back 299 and the batch is empty.
C6_Witness ==
    /\ pcLoop = "f_ret"
    /\ httpCode = 299
    /\ sentBody # <<>>
    /\ influxBuffer = <<>>
    /\ influxLineCount = 0

(***************************************************************************)
(* C7.  influxFlush entered with an empty text or without Wi-Fi returns    *)
(* without a request and without touching the batch; and while Wi-Fi is    *)
(* down, a loop() that is not already inside a request takes no step that  *)
(* starts one or changes the batch.                                        *)
(***************************************************************************)
C7_NoFlushWithoutLink ==
    /\ [][pcLoop = "f_enter" /\ LoopStep /\ (influxBuffer = <<>> \/ ~wifi)
            => pcLoop' = "f_ret" /\ sentBody' = <<>> /\ UNCHANGED batch]_vars
    /\ [][~wifi /\ ~InRequest /\ LoopStep
            => ~InRequest' /\ sentBody' = <<>> /\ UNCHANGED batch]_vars

\* influxFlush was entered and returned without a request while a full
\* buffer waits and Wi-Fi is down.
C7_Witness ==
    /\ cfg = "http"
    /\ pcLoop = "f_ret"
    /\ ~wifi
    /\ sentBody = <<>>
    /\ httpCode = 0
    /\ TextLength(influxBuffer) = INFLUX_MAX_BUFFER

(***************************************************************************)
(* C8.  Every request is loop()'s: the body handed to POST and the status  *)
(* it returns change only in steps of loop(), and a step of onReceive      *)
(* changes nothing but its own locals, latestData, the flag and the batch. *)
(***************************************************************************)
C8_CallbackDoesNoNetwork ==
    /\ [][sentBody' # sentBody \/ httpCode' # httpCode
            => LoopStep /\ UNCHANGED cbLocals]_vars
    /\ [][CbStep => UNCHANGED << loopLocals, wifi, timers, displayed >>]_vars

\* onReceive has appended a sample while loop() waits for POST to return.
C8_Witness ==
    /\ pcLoop = "wait"
    /\ pcCb = "cnt_w"
    /\ Len(influxBuffer) = Len(sentBody) + 3

(***************************************************************************)
(* C9.  A packet whose length is not 12 changes nothing: onReceive returns *)
(* with latestData, the flag, the text and the line count as they were.    *)
(***************************************************************************)
C9_WrongLengthIgnored ==
    [][(pcCb = "entry" /\ cbLen # 12 /\ CbStep) \/ (pcCb = "idle" /\ CbStep)
         => /\ UNCHANGED << latestData, newDataAvailable, influxBuffer, influxLineCount >>
            /\ (pcCb = "entry" => pcCb' = "idle")]_vars

\* A 16-byte packet whose first 12 bytes differ from latestData is delivered.
C9_Witness ==
    /\ pcCb = "entry"
    /\ cbLen = 16
    /\ cbData # latestData

(***************************************************************************)
(* C10.  On every transmitter iteration esp_now_send is called exactly     *)
(* when the magnitude is at least the threshold or at least                *)
(* MIN_SEND_INTERVAL ms have passed since the last successful send.        *)
(***************************************************************************)
C10_Elapsed == U32Val(currentTime) - U32Val(lastSendTime)

C10_SendIffGate ==
    [][txPc = "gate" /\ txPc' = "delay"
         => (txResult' \in {"ESP_OK", "ESP_FAIL"})
              <=> \/ SumOfSquares(txAcc) >= 4 * MIN_TRANSMISSION_THRESHOLD
                                              * MIN_TRANSMISSION_THRESHOLD
                  \/ C10_Elapsed >= MIN_SEND_INTERVAL]_vars

\* A reading below the threshold goes out exactly MIN_SEND_INTERVAL ms after
\* the last send.
C10_Witness ==
    /\ txPc = "delay"
    /\ txResult = "ESP_OK"
    /\ SumOfSquares(txAcc) = 3
    /\ lastSendTime = currentTime
    /\ U32Val(currentTime) = MIN_SEND_INTERVAL

\* A reading of magnitude exactly 1 goes out 500 ms after the last send.
C10_WitnessThreshold ==
    /\ txPc = "gate"
    /\ shouldSend
    /\ SumOfSquares(txAcc) = 4
    /\ C10_Elapsed = 500

(***************************************************************************)
(* C11.  While the supervisor is in Disconnected after its N+1st           *)
(* consecutive failure, the delay is min(max_delay, initial_delay * 2^N)   *)
(* plus a jitter in [0, jitter_ceiling]; reaching Connected sets the       *)
(* failure count back to zero, so that the next failure uses N = 0; and    *)
(* with initial = 1 s, max = 60 s and no jitter the first three failures   *)
(* wait 1 s, 2 s and 4 s.                                                  *)
(***************************************************************************)
C11_BackoffDelay ==
    /\ [](linkStatus = "Disconnected" /\ attempts > 0
            => \E j \in 0..jitter_ceiling :
                 delay = Min(max_delay, initial_delay * 2^(attempts - 1)) + j)
    /\ [][linkStatus # "Connected" /\ linkStatus' = "Connected"
            => attempts' = 0]_vars
    /\ [][linkStatus = "Connected" /\ linkStatus' = "Disconnected"
            => delay' \in initial_delay..(initial_delay + jitter_ceiling)]_vars
    /\ [](<< initial_delay, max_delay, jitter_ceiling >> = << 2, 120, 0 >>
            /\ linkStatus = "Disconnected" /\ attempts \in 1..3
            => delay = << 2, 4, 8 >>[attempts])

\* Third failure in a row with 1 s, 60 s and no jitter: the delay is 4 s.
C11_Witness ==
    /\ << initial_delay, max_delay, jitter_ceiling >> = << 2, 120, 0 >>
    /\ linkStatus = "Disconnected"
    /\ attempts = 3
    /\ delay = 8

\* The delay is held at the cap.
C11_WitnessCapped ==
    /\ linkStatus = "Disconnected"
    /\ max_delay = 5
    /\ attempts = 6
    /\ delay = max_delay + jitter_ceiling

(***************************************************************************)
(* C12.  The link status is one of the three states, starts in             *)
(* Disconnected, changes only along the four edges, leaves Disconnected    *)
(* only when the delay has elapsed since it was entered, and from          *)
(* Disconnected a connect attempt is always eventually made.               *)
(***************************************************************************)
C12_Edges ==
    { << "Disconnected", "Connecting" >>, << "Connecting", "Connected" >>,
      << "Connecting", "Disconnected" >>, << "Connected", "Disconnected" >> }

C12_LinkStateMachine ==
    /\ linkStatus = "Disconnected"
    /\ [](linkStatus \in {"Disconnected", "Connecting", "Connected"})
    /\ [][linkStatus' # linkStatus
            => << linkStatus, linkStatus' >> \in C12_Edges]_vars
    /\ [][linkStatus = "Disconnected" /\ linkStatus' = "Connecting"
            => waited >= delay]_vars
    /\ [](linkStatus = "Disconnected" => <>(linkStatus = "Connecting"))

\* A connect attempt is made after a full backoff delay was waited out.
C12_Witness ==
    /\ linkStatus = "Connecting"
    /\ attempts = 2
    /\ delay > 0
    /\ waited = delay

(***************************************************************************)
(* C13.  In a build whose base URL is https:// no request is ever made:    *)
(* setup() keeps no URL, influxFlush returns from its entry, no body is    *)
(* handed to POST and no status comes back; the callback and the display   *)
(* go on (C13_Witness).                                                    *)
(***************************************************************************)
C13_HttpsNeverPosts ==
    /\ [](cfg = "https"
            => g_influxURL = "" /\ ~InRequest /\ sentBody = <<>> /\ httpCode = 0)
    /\ [][cfg = "https" /\ pcLoop = "f_enter" /\ LoopStep
            => pcLoop' = "f_ret" /\ UNCHANGED batch]_vars

\* With an https URL a sample was received, drawn and buffered, and
\* influxFlush was entered over Wi-Fi and returned without a request.
C13_Witness ==
    /\ cfg = "https"
    /\ wifi
    /\ pcLoop = "f_ret"
    /\ displayed = << latestData >>
    /\ latestData # ZeroData
    /\ influxLineCount = 3
    /\ Len(influxBuffer) = 3

(***************************************************************************)
(* C14.  With Wi-Fi connected, loop() decides to flush exactly when 1000   *)
(* ms or more have passed since the last flush, or the line count is 10 or *)
(* more, or the text holds 1024 bytes or more.                             *)
(***************************************************************************)
C14_Elapsed == U32Val(clock) - U32Val(lastInfluxFlushMs)

C14_Due ==
    \/ C14_Elapsed >= 1000
    \/ influxLineCount >= 10
    \/ TextLength(influxBuffer) >= 1024

C14_FlushDueDecision ==
    [][pcLoop = "check" /\ LoopStep /\ wifi
         => (pcLoop' = "f_enter" <=> C14_Due)]_vars

\* The timer alone, at exactly 1000 ms.
C14_Witness ==
    /\ pcLoop = "f_enter"
    /\ C14_Elapsed = 1000
    /\ influxLineCount \in 1..9
    /\ TextLength(influxBuffer) < 1024

\* The line count alone.
C14_WitnessLines ==
    /\ pcLoop = "f_enter"
    /\ C14_Elapsed < 1000
    /\ influxLineCount \in 10..12
    /\ TextLength(influxBuffer) < 1024

\* The byte length alone.
C14_WitnessBytes ==
    /\ pcLoop = "f_enter"
    /\ C14_Elapsed < 1000
    /\ influxLineCount < 10
    /\ TextLength(influxBuffer) >= 1024

\* None of the three: no flush.
C14_WitnessNone ==
    /\ pcLoop = "delay"
    /\ wifi
    /\ ticks = 1
    /\ C14_Elapsed = 5
    /\ influxLineCount = 9
    /\ Len(influxBuffer) = 9

(***************************************************************************)
(* C15.  Once a threshold is crossed the flush stays due until loop() is   *)
(* inside influxFlush, and an iteration of loop() ends without calling     *)
(* influxFlush only if, at its test, Wi-Fi was down or nothing was due: so *)
(* the first iteration that finds Wi-Fi connected after a threshold was    *)
(* crossed calls influxFlush.                                              *)
(***************************************************************************)
C15_FlushByNextTick ==
    /\ [][C14_Due /\ ~C14_Due' => pcLoop \in {"clr_buf", "clr_cnt", "f_ret"}]_vars
    /\ [][pcLoop # "delay" /\ pcLoop' = "delay"
            => \/ pcLoop = "f_ret"
               \/ pcLoop = "check" /\ (~wifi \/ ~C14_Due)]_vars

\* The line count crossed its threshold and the next iteration, 5 ms after
\* the last flush, calls influxFlush.
C15_Witness ==
    /\ pcLoop = "f_enter"
    /\ ticks = 1
    /\ C14_Elapsed = 5
    /\ influxLineCount >= 10

(***************************************************************************)
(* C16.  After a call of influxFlush whose POST failed, the first          *)
(* iteration of loop() that finds Wi-Fi connected and the batch still      *)
(* there calls influxFlush again, whatever the size of the batch (stated   *)
(* for the iterations whose test runs while onReceive is not running).     *)
(***************************************************************************)
C16_RetryNextTick ==
    [][pcLoop = "check" /\ LoopStep /\ wifi /\ pcCb = "idle"
         /\ flushOutcome = "failed" /\ influxBuffer # <<>>
         => pcLoop' = "f_enter"]_vars

(***************************************************************************)
(* C17.  lastInfluxFlushMs is set to the current time when a call of       *)
(* influxFlush whose POST succeeded returns, and changes at no other time: *)
(* not after a call that a guard ended, nor after one whose POST failed.   *)
(***************************************************************************)
C17_TimestampOnSuccessOnly ==
    /\ [][pcLoop = "f_ret" /\ LoopStep /\ flushOutcome = "ok"
            => lastInfluxFlushMs' = clock]_vars
    /\ [][lastInfluxFlushMs' # lastInfluxFlushMs => flushOutcome = "ok"]_vars

(***************************************************************************)
(* C18.  The steady stream: a sample every 150 ms from the moment of a     *)
(* flush, a sink that answers 200.  C18_FirstFlushAtSeventh: the first     *)
(* call of influxFlush is made by the timer, 1000 ms or more after the     *)
(* stream began and with the 6th or 7th sample delivered, and none is made *)
(* earlier.  C18_FirstFlushAtFourth: it is made by the line count, with    *)
(* the 4th sample's lines counted (12 lines), 600 or 605 ms after the      *)
(* stream began, before the timer is due.                                  *)
(***************************************************************************)
C18_FirstFlush ==
    /\ pcLoop = "f_enter"
    /\ lastInfluxFlushMs = U32(StreamStartMs)

C18_FirstFlushAtSeventh ==
    C18_FirstFlush => C14_Elapsed >= 1000 /\ rxCount \in 6..7

C18_FirstFlushAtFourth ==
    C18_FirstFlush
      => /\ rxCount = 4
         /\ influxLineCount = 12
         /\ C14_Elapsed \in {600, 605}

\* The first call of influxFlush of the stream, 600 ms after it began.
C18_Witness ==
    /\ C18_FirstFlush
    /\ streamPeriod = 150
    /\ rxCount = 4
    /\ influxLineCount = 12
    /\ C14_Elapsed = 600

(***************************************************************************)
(* C19.  Across consecutive failures the delay does not decrease while the *)
(* exponential term is below the cap; the delay is never below the         *)
(* exponential term; and the first success after failures sets the delay   *)
(* back to the initial value.  C19_BackoffMonotonic states this for every  *)
(* configuration, C19_MonotonicSmallJitter for the configurations whose    *)
(* jitter ceiling does not exceed the initial delay.                       *)
(***************************************************************************)
C19_NextFailure ==
    /\ linkStatus = "Connecting"
    /\ linkStatus' = "Disconnected"
    /\ attempts >= 1
    /\ initial_delay * 2^attempts < max_delay

C19_FloorAndReset ==
    /\ [](linkStatus = "Disconnected" /\ attempts > 0
            => delay >= Min(max_delay, initial_delay * 2^(attempts - 1)))
    /\ [][linkStatus = "Connecting" /\ linkStatus' = "Connected"
            => delay' = initial_delay]_vars

C19_BackoffMonotonic ==
    /\ [][C19_NextFailure => delay' >= delay]_vars
    /\ C19_FloorAndReset

C19_MonotonicSmallJitter ==
    /\ [][C19_NextFailure /\ jitter_ceiling <= initial_delay
            => delay' >= delay]_vars
    /\ C19_FloorAndReset

\* A second failure drew no jitter after a first one that drew the most.
C19_Witness ==
    /\ linkStatus = "Disconnected"
    /\ jitter_ceiling = 1
    /\ initial_delay = 1
    /\ attempts = 2
    /\ delay = 2

(***************************************************************************)
(* C20.  Every valid packet is eventually followed by a draw that shows    *)
(* the sample of that packet or of a later one, whole: for the k-th valid  *)
(* packet, once it has been delivered the screen eventually shows the      *)
(* sample of a packet j >= k.                                              *)
(***************************************************************************)
C20_Shows(k) ==
    /\ usbDisplayed # << >>
    /\ usbDisplayed[1].x >= k
    /\ usbDisplayed[1] = Sample(usbDisplayed[1].x)

C20_DisplayCatchesUp ==
    \A k \in 1..MaxUsbPackets : [](usbRxCount >= k => <>C20_Shows(k))

\* The second packet is being copied while loop(), past the clearing of the
\* flag, loads the arguments of the draw for the first.
C20_Witness ==
    /\ usbRxCount = 2
    /\ usbPcCb = "copy_y"
    /\ usbPcLoop = "read_y"
    /\ usbNewDataAvailable = FALSE
    /\ usbDisplayed = << >>

\* The screen shows a mix of two samples for a while.
C20_WitnessTorn ==
    /\ usbDisplayed # << >>
    /\ usbDisplayed[1].x = 2
    /\ usbDisplayed[1].z = 1

(***************************************************************************)
(* C21.  lastSendTime changes only in the step of an iteration whose gate  *)
(* passed and whose esp_now_send returned ESP_OK, and becomes that         *)
(* iteration's currentTime; so a heartbeat that is due stays due until a   *)
(* send succeeds, and every iteration that finds it due attempts the send. *)
(***************************************************************************)
C21_HeartbeatDue ==
    U32Val(txClock) - U32Val(lastSendTime) >= MIN_SEND_INTERVAL

C21_LastSendFrame ==
    /\ [][lastSendTime' # lastSendTime
            => /\ txPc = "gate" /\ shouldSend
               /\ txResult' = "ESP_OK"
               /\ lastSendTime' = currentTime]_vars
    /\ [][txPc = "gate" /\ txPc' = "delay"
            => (txResult' = "ESP_OK" => lastSendTime' = currentTime)
               /\ (txResult' # "ESP_OK" => lastSendTime' = lastSendTime)]_vars
    /\ [][C21_HeartbeatDue /\ ~C21_HeartbeatDue' => txResult' = "ESP_OK"]_vars
    /\ [][txPc = "read" /\ txPc' = "gate" /\ C21_HeartbeatDue => shouldSend']_vars

\* The heartbeat of the iteration at 60000 ms failed, and the iteration at
\* 60500 ms sends a reading below the threshold again.
C21_Witness ==
    /\ txPc = "gate"
    /\ shouldSend
    /\ SumOfSquares(txAcc) = 0
    /\ lastSendTime = U32(0)
    /\ U32Val(currentTime) = MIN_SEND_INTERVAL + 500

\* A failed send left lastSendTime as it was.
C21_WitnessFailed ==
    /\ txPc = "delay"
    /\ txResult = "ESP_FAIL"
    /\ SumOfSquares(txAcc) = 0
    /\ lastSendTime = U32(0)
    /\ U32Val(currentTime) = MIN_SEND_INTERVAL

(***************************************************************************)
(* C22.  Across a wrap of millis() the three elapsed-time tests decide as  *)
(* the true elapsed time does: loop() calls influxFlush exactly when 1000  *)
(* ms or more have truly passed since lastInfluxFlushMs (or the batch is   *)
(* full), checks Wi-Fi exactly when 5000 ms or more have passed since      *)
(* lastWiFiCheckMillis, and the transmitter's gate passes exactly when the *)
(* magnitude reaches the threshold or 60000 ms or more have passed since   *)
(* lastSendTime.  The true elapsed time from an earlier reading of         *)
(* millis() to a later one, less than 2^32 ms apart, is their difference,  *)
(* plus 2^32 when the later reading is the smaller number.                 *)
(***************************************************************************)
C22_TrueElapsed(now, last) ==
    IF U32Le(last, now)
    THEN (now[1] - last[1]) * W16 + (now[2] - last[2])
    ELSE (now[1] + W16 - last[1]) * W16 + (now[2] - last[2])

C22_Wrapped(now, last) == ~U32Le(last, now)

C22_ElapsedAcrossWrap ==
    /\ [][pcLoop = "check" /\ LoopStep /\ wifi
            => (pcLoop' = "f_enter"
                  <=> \/ C22_TrueElapsed(clock, lastInfluxFlushMs) >= INFLUX_FLUSH_INTERVAL_MS
                      \/ influxLineCount >= INFLUX_MAX_LINES
                      \/ TextLength(influxBuffer) >= INFLUX_MAX_BUFFER)]_vars
    /\ [][pcLoop = "wifi" /\ LoopStep
            => (lastWiFiCheckMillis' # lastWiFiCheckMillis
                  <=> C22_TrueElapsed(clock, lastWiFiCheckMillis) >= WIFI_CHECK_PERIOD_MS)]_vars
    /\ [][txPc = "read" /\ txPc' = "gate"
            => (shouldSend'
                  <=> \/ MagnitudeAtLeast(txAcc', MIN_TRANSMISSION_THRESHOLD)
                      \/ C22_TrueElapsed(txClock, lastSendTime) >= MIN_SEND_INTERVAL)]_vars

\* millis() wrapped since the last flush, exactly 1000 ms ago, and loop()
\* calls influxFlush.
C22_Witness ==
    /\ pcLoop = "f_enter"
    /\ C22_Wrapped(clock, lastInfluxFlushMs)
    /\ C22_TrueElapsed(clock, lastInfluxFlushMs) = 1000
    /\ influxLineCount = 3

\* millis() wrapped 2 ms ago, 5 ms after the last flush: no flush.
C22_WitnessNotDue ==
    /\ pcLoop = "delay"
    /\ ticks = 1
    /\ wifi
    /\ C22_Wrapped(clock, lastInfluxFlushMs)
    /\ C22_TrueElapsed(clock, lastInfluxFlushMs) = 5
    /\ flushOutcome = "skipped"

\* The Wi-Fi check across the wrap, exactly 5000 ms after the last one.
C22_WitnessWiFi ==
    /\ pcLoop = "wifi"
    /\ C22_Wrapped(clock, lastWiFiCheckMillis)
    /\ C22_TrueElapsed(clock, lastWiFiCheckMillis) = 5000

\* The heartbeat across the wrap: sent at exactly 60000 ms, and not at
\* 59999 ms.
C22_WitnessHeartbeat ==
    /\ txPc = "gate"
    /\ shouldSend
    /\ SumOfSquares(txAcc) = 0
    /\ C22_Wrapped(txClock, lastSendTime)
    /\ C22_TrueElapsed(txClock, lastSendTime) = 60000

C22_WitnessNoHeartbeat ==
    /\ txPc = "gate"
    /\ ~shouldSend
    /\ C22_Wrapped(txClock, lastSendTime)
    /\ C22_TrueElapsed(txClock, lastSendTime) = 59999

(***************************************************************************)
(* C23.  Whatever the sequence of enqueues and of failed and successful    *)
(* pushes, the lines accepted by the server are the three lines of sample  *)
(* after sample, in the order the samples arrived, and no sample is there  *)
(* twice: `delivered' is the concatenation of the line triples of samples  *)
(* with strictly increasing numbers.                                       *)
(***************************************************************************)
RECURSIVE C23_InOrderFrom(_, _)
C23_InOrderFrom(s, k) ==
    \/ s = <<>>
    \/ /\ Len(s) >= 3
       /\ \E j \in k..MaxOrderSamples :
            /\ SubSeq(s, 1, 3) = toInfluxLineProtocol(Sample(j), SENSOR_NAME)
            /\ C23_InOrderFrom(SubSeq(s, 4, Len(s)), j + 1)

C23_DeliveredInOrder == C23_InOrderFrom(delivered, 1)

====
